---- MODULE Spec2Model ----
(***************************************************************************)
(* Model of backend/providers/fal_nanobanana.py: one call of               *)
(* try_on_with_fal_nanobanana, cut at its await points (the submission     *)
(* POST, every status request, the sleep between poll ticks).  The         *)
(* provider's answers, the duration of every await, the environment        *)
(* variables and the caller's arguments are the inputs.                    *)
(***************************************************************************)
EXTENDS Integers, Sequences, FiniteSets, TLC

(* ------------------------------ bounds --------------------------------- *)
\* largest timeout_s a caller passes (seconds)
MaxTimeout == 3
\* longest style hint (prompt_extra), in characters
MaxExtraLen == 2
\* longest time one HTTP request takes before it answers or raises (seconds)
MaxReqDur == 1

(* ------------------------- program constants --------------------------- *)
\* len(KIE_QUERY_URLS)
NumQueryUrls == 4
\* len(query_payloads): {"taskId"}, {"task_id"}, {"id"}, GET url/<id>
NumQueryPayloads == 4
\* asyncio.sleep(2.0)
SleepSeconds == 2
\* submission endpoints: the single KIE_API_URL
NumSubmitUrls == 1

Unset == "<unset>"
\* an environment variable is unset, set to the empty string, or set
EnvValues == {Unset, "", "key"}
Description == "Generated by Nano Banana via Kie.ai"
\* Python's None for an Optional[str] argument
None == "<None>"

VARIABLES
  KIE_API_KEY,      \* module constant read from the environment at import
  category,         \* argument category: None or a string
  prompt_extra,     \* argument prompt_extra: [some, text], text a sequence
                    \* of characters
  prompt,           \* payload["input"]["prompt"], a sequence of pieces
  timeout_s,        \* argument timeout_s
  on_progress,      \* argument on_progress: "none", "ok" (returns), "raises"
  pc,               \* position of the coroutine
  client,           \* httpx.AsyncClient: "none", "open", "closed"
  task_id,
  query_url,        \* index into KIE_QUERY_URLS of the for loop
  query_payload,    \* index into query_payloads of the inner for loop
  elapsed,          \* time.time() - t0
  query_success,
  outcome,          \* what the call returned or raised
  \* ---- observation of the run (what a test double of the transport sees)
  nSubmit,          \* submission POSTs issued
  queried,          \* a status request has been issued
  nResults,         \* terminal results produced
  submitResp,       \* the submission response
  budget,           \* seconds left of timeout_s since polling of the job
                    \* began; -1 once more than timeout_s have passed
  firstFailMsg,     \* failMsg of the first valid "fail" response ("-": none)
  badSuccess,       \* a valid "success" response carried no result URL
  clean,            \* every status response so far was a valid non-terminal
                    \* state or a "success" carrying result URLs
  successResp,      \* the status response the call returned on
  lastKind,         \* what the last status request produced (ResponseKind)
  answered,         \* a valid status response has been received
  cancelled         \* the task was cancelled at an await

\* ---- backend/app.py: the process around the provider call
VARIABLES
  settings,         \* Settings(): FAL_KEY, KIE_API_KEY, DELETE_AFTER_MINUTES
  utcnow,           \* datetime.utcnow(), in minutes
  uploaded_index,   \* name of a temp selfie file -> expiry instant
  generated_index,  \* result URL -> expiry instant
  tmp_files,        \* names of the files present in TMP_DIR
  handler,          \* per request: position and response of api_tryon
  cleaner_wake      \* instant at which the sleep of _ttl_cleaner ends

callVars == << KIE_API_KEY, category, prompt_extra, prompt, timeout_s, on_progress, pc, client, task_id, query_url,
           query_payload, elapsed, query_success, outcome, nSubmit, queried,
           nResults, submitResp, budget, firstFailMsg, badSuccess, clean,
           successResp, lastKind, answered, cancelled >>

appVars == << settings, utcnow, uploaded_index, generated_index, tmp_files,
              handler, cleaner_wake >>

vars == << callVars, appVars >>

(* ------------------------------ helpers -------------------------------- *)
Range(s) == {s[i] : i \in 1..Len(s)}

\* os.getenv(name, default)
getenv(value, default) == IF value = Unset THEN default ELSE value

\* KIE_API_KEY = os.getenv("KIE_API_KEY", os.getenv("FAL_KEY", ""))
LoadApiKey(kie, fal) == getenv(kie, getenv(fal, ""))

\* the check written as "KIE_API_KEY is None": an empty key passes it
NotConfigured_isNone(key) == key = Unset

\* "if not KIE_API_KEY" at the head of the call
NotConfigured(key) == key = ""

Max(a, b) == IF a >= b THEN a ELSE b

(* ---------------------------- build_prompt ----------------------------- *)
\* Optional[str] values of prompt_extra
NoExtra == [some |-> FALSE, text |-> << >>]
Extra(text) == [some |-> TRUE, text |-> text]

\* the f-string of lines 33-38, with "category or 'clothes'"
BasePrompt(cat) ==
  << "Replace the person's current ",
     IF cat = None \/ cat = "" THEN "clothes" ELSE cat,
     " with the garment shown in the second image. ",
     "Preserve the person's identity, face, hairstyle, skin tone, body shape, pose and background. ",
     "Make the fit realistic and natural with correct lighting and fabric drape. Keep hands and accessories intact. ",
     "Avoid changing facial features." >>

\* build_prompt that appends the hint alone on the extra line
build_prompt_bareHint(cat, extra) ==
  IF extra.some /\ extra.text # << >>
    THEN BasePrompt(cat) \o <<"\n">> \o extra.text
    ELSE BasePrompt(cat)

\* Lines 32-41; "if extra" is false for None and for the empty string
build_prompt(cat, extra) ==
  IF extra.some /\ extra.text # << >>
    THEN BasePrompt(cat) \o <<"\n", "Extra style guidance: ">> \o extra.text
    ELSE BasePrompt(cat)

(* ------------------------------ outcomes ------------------------------- *)
NoOutcome == [kind |-> "none", url |-> "", description |-> "",
              request_id |-> "", msg |-> << >>]
\* return (url, description, request_id)
Return(url, desc, rid) == [kind |-> "return", url |-> url, description |-> desc,
                           request_id |-> rid, msg |-> << >>]
\* raise FalError(msg); the message is kept as its parts
FalError(msg) == [kind |-> "FalError", url |-> "", description |-> "",
                  request_id |-> "", msg |-> msg]

\* asyncio.CancelledError leaving the call
Cancelled == [kind |-> "CancelledError", url |-> "", description |-> "",
              request_id |-> "", msg |-> << >>]

\* the handlers of the outer try: each wraps str(e) of what it caught
ExceptConnectError(e) == FalError(<<"Failed to connect to Kie.ai API: ">> \o e)
ExceptTimeoutException(e) == FalError(<<"Timeout connecting to Kie.ai API: ">> \o e)
ExceptException(e) == FalError(<<"Unexpected error: ">> \o e)

(* ------------------------- provider responses -------------------------- *)
\* What the submission POST can produce.
\*   k: "ConnectError" | "TimeoutException" | "Exception" | "response"
\*   status: HTTP status; json: "ok" | "invalid"; code: body "code";
\*   taskId: data.taskId ("" = absent); resultUrls: a result list in the body
SubmitResp(k, status, json, code, taskId, resultUrls) ==
  [k |-> k, status |-> status, json |-> json, code |-> code,
   taskId |-> taskId, resultUrls |-> resultUrls]

NoSubmitResp == SubmitResp("none", 0, "ok", 0, "", << >>)

SubmitResponses ==
  { SubmitResp("ConnectError", 0, "ok", 0, "", << >>),
    SubmitResp("TimeoutException", 0, "ok", 0, "", << >>),
    SubmitResp("Exception", 0, "ok", 0, "", << >>),
    SubmitResp("response", 500, "ok", 0, "", << >>),
    SubmitResp("response", 200, "invalid", 0, "", << >>),
    SubmitResp("response", 200, "ok", 501, "", << >>),
    SubmitResp("response", 200, "ok", 200, "", << >>),
    SubmitResp("response", 200, "ok", 200, "", <<"r0">>),
    SubmitResp("response", 200, "ok", 200, "t1", << >>),
    SubmitResp("response", 200, "ok", 200, "t1", <<"r0">>) }

\* What a status request can produce.
\*   k: "Exception" | "response"; status; json; code as above
\*   state: data.state ("absent" when missing); failMsg ("" = absent)
\*   resultJson: "absent" | "invalid" | "object"; resultUrls: its list
StatusResp(k, status, json, code, state, failMsg, resultJson, resultUrls) ==
  [k |-> k, status |-> status, json |-> json, code |-> code, state |-> state,
   failMsg |-> failMsg, resultJson |-> resultJson, resultUrls |-> resultUrls]

NoStatusResp == StatusResp("none", 0, "ok", 0, "absent", "", "absent", << >>)

Running(state) == StatusResp("response", 200, "ok", 200, state, "", "absent", << >>)
Fail(m) == StatusResp("response", 200, "ok", 200, "fail", m, "absent", << >>)
Success(rj, urls) == StatusResp("response", 200, "ok", 200, "success", "", rj, urls)

ExceptionResp == StatusResp("Exception", 0, "ok", 0, "absent", "", "absent", << >>)

StatusResponses ==
  { ExceptionResp,
    StatusResp("response", 404, "ok", 0, "absent", "", "absent", << >>),
    StatusResp("response", 500, "ok", 0, "absent", "", "absent", << >>),
    StatusResp("response", 200, "invalid", 0, "absent", "", "absent", << >>),
    StatusResp("response", 200, "ok", 501, "absent", "", "absent", << >>),
    Running("running"), Running("queued"), Running("absent"),
    Fail("bad image"), Fail(""),
    Success("absent", << >>), Success("invalid", << >>),
    Success("object", << >>), Success("object", <<"">>),
    Success("object", <<"r1">>), Success("object", <<"r2", "r1">>) }

(* ---------------------- the submission response ------------------------ *)
\* the submission handling without the "except httpx.ConnectError" clause:
\* a ConnectError falls to "except Exception"
SubmitError_noConnectClause(r) ==
  IF r.k = "ConnectError" THEN ExceptException(<<"ConnectError">>)
  ELSE IF r.k = "TimeoutException" THEN ExceptTimeoutException(<<"TimeoutException">>)
  ELSE IF r.k = "Exception" THEN ExceptException(<<"Exception">>)
  ELSE IF r.status >= 400
    THEN ExceptException(<<"Kie.ai API failed: ", ToString(r.status), "body">>)
  ELSE IF r.json = "invalid" THEN ExceptException(<<"JSONDecodeError">>)
  ELSE IF r.code # 200
    THEN ExceptException(<<"Kie.ai API error: ", "Unknown error">>)
  ELSE IF r.taskId = ""
    THEN ExceptException(<<"Kie.ai API did not return task ID">>)
  ELSE NoOutcome

\* the submission handling without the test of r.status_code (80-82): an
\* error response is parsed like any other
SubmitError_noStatusCheck(r) ==
  IF r.k = "ConnectError" THEN ExceptConnectError(<<"ConnectError">>)
  ELSE IF r.k = "TimeoutException" THEN ExceptTimeoutException(<<"TimeoutException">>)
  ELSE IF r.k = "Exception" THEN ExceptException(<<"Exception">>)
  ELSE IF r.json = "invalid" THEN ExceptException(<<"JSONDecodeError">>)
  ELSE IF r.code # 200
    THEN ExceptException(<<"Kie.ai API error: ", "Unknown error">>)
  ELSE IF r.taskId = ""
    THEN ExceptException(<<"Kie.ai API did not return task ID">>)
  ELSE NoOutcome

\* Lines 77-92: what the call raises on the submission response, already
\* passed through the handlers of the outer try; NoOutcome when it goes on
\* to poll.
SubmitError(r) ==
  IF r.k = "ConnectError" THEN ExceptConnectError(<<"ConnectError">>)
  ELSE IF r.k = "TimeoutException" THEN ExceptTimeoutException(<<"TimeoutException">>)
  ELSE IF r.k = "Exception" THEN ExceptException(<<"Exception">>)
  ELSE IF r.status >= 400
    THEN ExceptException(<<"Kie.ai API failed: ", ToString(r.status), "body">>)
  ELSE IF r.json = "invalid" THEN ExceptException(<<"JSONDecodeError">>)
  ELSE IF r.code # 200
    THEN ExceptException(<<"Kie.ai API error: ", "Unknown error">>)
  ELSE IF r.taskId = ""
    THEN ExceptException(<<"Kie.ai API did not return task ID">>)
  ELSE NoOutcome

(* ------------------------- the polling loops --------------------------- *)
\* a control point of the coroutine
Ctl(pcv, q, p, el, qs, out) ==
  [pc |-> pcv, query_url |-> q, query_payload |-> p, elapsed |-> el,
   query_success |-> qs, outcome |-> out]

\* Lines 195-198 after the for loop, through "except Exception" (206-208)
AfterFor(qs) ==
  IF ~qs THEN ExceptException(<<"All query endpoints failed">>)
  ELSE ExceptException(<<"Task polling timed out">>)

\* a loop over KIE_QUERY_URLS that starts over after the last entry
ForQueryUrl_wrap(q, tmo) ==
  Ctl("await_query", IF q > NumQueryUrls THEN 1 ELSE q, 1, 0, FALSE, NoOutcome)

\* Lines 98-104: the for loop reaches entry q of KIE_QUERY_URLS with
\* query_success false; t0 is taken anew (elapsed 0), then the while test.
RECURSIVE ForQueryUrl(_, _)
ForQueryUrl(q, tmo) ==
  IF q > NumQueryUrls THEN Ctl("done", q, 0, 0, FALSE, AfterFor(FALSE))
  ELSE IF 0 < tmo THEN Ctl("await_query", q, 1, 0, FALSE, NoOutcome)
  ELSE ForQueryUrl(q + 1, tmo)

\* Lines 104, 188-189: the while test after the sleep of a tick that set
\* query_success; on exit "if query_success: break" leaves the for loop.
WhileAfterSleep(q, el, tmo) ==
  IF el < tmo THEN Ctl("await_query", q, 1, el, FALSE, NoOutcome)
  ELSE Ctl("done", q, 0, el, TRUE, AfterFor(TRUE))

\* a status response that passed the checks of lines 127-140
Valid(r) == r.k = "response" /\ r.status < 400 /\ r.json = "ok" /\ r.code = 200

\* json.loads(result_json).get("resultUrls", []) is a nonempty list
HasResultUrls(r) == r.resultJson = "object" /\ r.resultUrls # << >>

\* the payload loop without the 404 test (127-129): a 404 is one more
\* failed payload shape
QueryVerdict_no404(r, cb) ==
  IF r.k = "Exception" THEN "continue"
  ELSE IF r.status >= 400 THEN "continue"
  ELSE IF r.json = "invalid" THEN "continue"
  ELSE IF r.code # 200 THEN "continue"
  ELSE IF r.state = "success"
    THEN IF r.resultJson = "absent" THEN "continue"
         ELSE IF r.resultJson = "invalid" THEN "continue"
         ELSE IF r.resultUrls # << >> THEN "return"
         ELSE "continue"
  ELSE IF r.state = "fail" THEN "continue"
  ELSE IF cb = "raises" THEN "continue"
  ELSE "sleep"

\* Lines 125-177: what the body of "for query_payload" does with a response:
\*   "break"    leave the payload loop (404)
\*   "continue" next payload shape (also through "except Exception", 175)
\*   "return"   return the triple
\*   "sleep"    query_success = True; break
QueryVerdict(r, cb) ==
  IF r.k = "Exception" THEN "continue"
  ELSE IF r.status = 404 THEN "break"
  ELSE IF r.status >= 400 THEN "continue"
  ELSE IF r.json = "invalid" THEN "continue"
  ELSE IF r.code # 200 THEN "continue"
  ELSE IF r.state = "success"
    THEN IF r.resultJson = "absent" THEN "continue"        \* raise, caught 175
         ELSE IF r.resultJson = "invalid" THEN "continue"  \* json.loads raises
         ELSE IF r.resultUrls # << >> THEN "return"
         ELSE "continue"                                   \* raise, caught 175
  ELSE IF r.state = "fail" THEN "continue"                 \* raise, caught 175
  ELSE IF cb = "raises" THEN "continue"                    \* caught 175
  ELSE "sleep"

\* the triple built from the last entry of resultUrls and a fresh id
SuccessResult_lastUrl(r, tid) ==
  Return(r.resultUrls[Len(r.resultUrls)], Description, tid)

\* Lines 153-158
SuccessResult(r, tid) == Return(r.resultUrls[1], Description, tid)

\* Lines 115-193: the control point after the response to payload shape p
\* of query URL q.
AfterQuery(r, cb, q, p, el, tmo, tid) ==
  LET v == QueryVerdict(r, cb) IN
  IF v = "return" THEN Ctl("done", q, p, el, FALSE, SuccessResult(r, tid))
  ELSE IF v = "sleep" THEN Ctl("sleep", q, p, el, TRUE, NoOutcome)
  ELSE IF v = "continue" /\ p < NumQueryPayloads
    THEN Ctl("await_query", q, p + 1, el, FALSE, NoOutcome)
  ELSE ForQueryUrl(q + 1, tmo)

\* what a status request produced, as lines 127-166 tell it apart
ResponseKind(r) ==
  IF r.k = "Exception" \/ (r.status < 400 /\ r.json = "invalid") THEN "exception"
  ELSE IF r.status = 404 THEN "404"
  ELSE IF r.status >= 400 THEN "http"
  ELSE IF r.code # 200 THEN "code"
  ELSE IF r.state = "fail" THEN "fail"
  ELSE IF r.state = "success" THEN IF HasResultUrls(r) THEN "success" ELSE "nourl"
  ELSE "nonterminal"

\* the concrete error of a failed status request, as the warnings of lines
\* 128, 132, 139 and 176 log it
ConcreteError(kind) ==
  CASE kind = "exception" -> "Exception"
    [] kind = "404" -> "404"
    [] kind = "http" -> "500"
    [] kind = "code" -> "Unknown error"
    [] kind = "fail" -> "Task failed: "
    [] kind = "nourl" -> "No result URLs in successful response"
    [] OTHER -> "on_progress error"

\* a CancelledError caught like an Exception by the handlers of the await
\* it is raised at (175, 184/191, 206)
OnCancel_swallowed(at, cb, q, p, el, qs, tmo, tid) ==
  IF at = "await_submit" THEN Ctl("done", q, p, el, qs, ExceptException(<<"CancelledError">>))
  ELSE IF at = "await_query" THEN AfterQuery(ExceptionResp, cb, q, p, el, tmo, tid)
  ELSE ForQueryUrl(q + 1, tmo)

\* asyncio.CancelledError raised at the await the coroutine is suspended
\* at: it is a BaseException, so no "except Exception" (175, 184, 191, 206)
\* catches it; it leaves "async with" and the call.
OnCancel(at, cb, q, p, el, qs, tmo, tid) ==
  Ctl("cancelled", q, p, el, qs, Cancelled)

(* ---------------------- backend/app.py: the data ----------------------- *)
\* concurrent requests to /api/tryon
NumRequests == 2
\* the clock runs from 0 to MaxNow minutes
MaxNow == 3
\* DELETE_AFTER_MINUTES is read from the environment: 1..MaxTtl
MaxTtl == 2
\* Settings.DELETE_AFTER_MINUTES when the environment does not set it
DefaultDeleteAfterMinutes == 60
\* asyncio.sleep(60) of _ttl_cleaner, in minutes
CleanerSleepMinutes == 1

Requests == 1..NumRequests
\* results of _random_name("jpg")
Names == {"a.jpg", "b.jpg"}
\* result URLs the provider returns
Urls == {"u1", "u2"}

\* settings = Settings(): every field is the environment variable of its
\* name, or the default of the class
LoadSettings(kie, fal, ttl) ==
  [FAL_KEY |-> getenv(fal, ""), KIE_API_KEY |-> getenv(kie, ""),
   DELETE_AFTER_MINUTES |-> ttl]

\* "if not settings.FAL_KEY" at the head of api_tryon
GateRejects(s) == s.FAL_KEY = ""

NoResponse == [status |-> 0, detail |-> ""]
HTTPException(status_code, detail) == [status |-> status_code, detail |-> detail]
\* TryOnResult(imageUrl=url, ...), answered with status 200
TryOnResult(url) == [status |-> 200, detail |-> url]

IdleHandler == [pc |-> "idle", response |-> NoResponse]
Respond(r) == [pc |-> "done", response |-> r]
At(c) == [pc |-> c, response |-> NoResponse]

\* an empty dict
EmptyIndex == [k \in {} |-> 0]

\* index[k] = v
Put(index, k, v) ==
  [x \in DOMAIN index \cup {k} |-> IF x = k THEN v ELSE index[x]]

\* the keys a cleaner pass at instant now selects: "exp < now"
Expired(index, now) == {k \in DOMAIN index : index[k] < now}

\* a pass that also pops the entries expiring at the instant of the pass
Purge_atExpiry(index, now) ==
  [k \in {x \in DOMAIN index : index[x] > now} |-> index[k]]

\* index.pop(k, None) for every selected key
Purge(index, now) ==
  [k \in DOMAIN index \ Expired(index, now) |-> index[k]]

\* the provider is called on its own: no request, no cleaner
NoApp ==
  /\ settings = LoadSettings(Unset, Unset, DefaultDeleteAfterMinutes)
  /\ utcnow = 0
  /\ uploaded_index = EmptyIndex
  /\ generated_index = EmptyIndex
  /\ tmp_files = {}
  /\ handler = [h \in Requests |-> IdleHandler]
  /\ cleaner_wake = 0

(* ------------------------------ the call ------------------------------- *)
inputs == << KIE_API_KEY, category, prompt_extra, timeout_s, on_progress >>

TerminalState(r) == Valid(r) /\ r.state \in {"success", "fail"}

\* task_data.get("failMsg", "Unknown error")
FailMsgOf(r) == IF r.failMsg = "" THEN "Unknown error" ELSE r.failMsg

\* the state at the call, for arguments category, prompt_extra drawn from
\* cats, extras
InitWith(cats, extras) ==
  /\ KIE_API_KEY \in {LoadApiKey(kie, fal) : kie \in EnvValues, fal \in EnvValues}
  /\ category \in cats
  /\ prompt_extra \in extras
  /\ prompt = << >>
  /\ lastKind = "none"
  /\ answered = FALSE
  /\ cancelled = FALSE
  /\ timeout_s \in 1..MaxTimeout
  /\ on_progress \in {"none", "ok", "raises"}
  /\ pc = "start"
  /\ client = "none"
  /\ task_id = ""
  /\ query_url = 0
  /\ query_payload = 0
  /\ elapsed = 0
  /\ query_success = FALSE
  /\ outcome = NoOutcome
  /\ nSubmit = 0
  /\ queried = FALSE
  /\ nResults = 0
  /\ submitResp = NoSubmitResp
  /\ budget = 0
  /\ firstFailMsg = "-"
  /\ badSuccess = FALSE
  /\ clean = TRUE
  /\ successResp = NoStatusResp

Init == InitWith({None}, {NoExtra}) /\ NoApp

\* move the coroutine to control point c; a move to "await_query" issues a
\* status request, a move to "done" or "cancelled" leaves "async with" and the call
Goto(c) ==
  /\ pc' = c.pc
  /\ query_url' = c.query_url
  /\ query_payload' = c.query_payload
  /\ elapsed' = c.elapsed
  /\ query_success' = c.query_success
  /\ outcome' = c.outcome
  /\ client' = IF c.pc \in {"done", "cancelled"} THEN "closed" ELSE client
  /\ nResults' = IF c.pc = "done" THEN nResults + 1 ELSE nResults
  /\ queried' = (queried \/ c.pc = "await_query")

\* Lines 52-77: the credential check, the payload with the prompt, then the
\* submission POST is sent.
Call ==
  /\ pc = "start"
  /\ IF NotConfigured(KIE_API_KEY)
       THEN /\ pc' = "done"
            /\ outcome' = FalError(<<"KIE_API_KEY not configured">>)
            /\ nResults' = nResults + 1
            /\ UNCHANGED << client, nSubmit, prompt >>
       ELSE /\ pc' = "await_submit"
            /\ prompt' = build_prompt(category, prompt_extra)
            /\ client' = "open"
            /\ nSubmit' = nSubmit + 1
            /\ UNCHANGED << outcome, nResults >>
  /\ UNCHANGED << lastKind, answered, cancelled >>
  /\ UNCHANGED << inputs, task_id, query_url, query_payload, elapsed,
                  query_success, queried, submitResp, budget, firstFailMsg,
                  badSuccess, clean, successResp >>
  /\ UNCHANGED appVars

\* Lines 77-123: the submission POST answers r; the call raises, or takes
\* the task id and sends the first status request.
SubmitReturn(r) ==
  /\ pc = "await_submit"
  /\ submitResp' = r
  /\ LET e == SubmitError(r) IN
     IF e # NoOutcome
       THEN /\ Goto(Ctl("done", query_url, query_payload, elapsed, query_success, e))
            /\ UNCHANGED << task_id, budget >>
       ELSE /\ task_id' = r.taskId
            /\ budget' = timeout_s
            /\ Goto(ForQueryUrl(1, timeout_s))
  /\ UNCHANGED << inputs, prompt, nSubmit, firstFailMsg, badSuccess, clean,
                  successResp, lastKind, answered, cancelled >>
  /\ UNCHANGED appVars

\* Lines 120-182: a status request answers r after d seconds.
QueryReturn(r, d) ==
  /\ pc = "await_query"
  /\ budget' = Max(-1, budget - d)
  /\ firstFailMsg' = IF firstFailMsg = "-" /\ Valid(r) /\ r.state = "fail"
                        THEN FailMsgOf(r) ELSE firstFailMsg
  /\ badSuccess' = (badSuccess \/ (Valid(r) /\ r.state = "success" /\ ~HasResultUrls(r)))
  /\ clean' = (clean /\ Valid(r) /\ (TerminalState(r) => QueryVerdict(r, on_progress) = "return"))
  /\ successResp' = IF QueryVerdict(r, on_progress) = "return" THEN r ELSE successResp
  /\ Goto(AfterQuery(r, on_progress, query_url, query_payload, elapsed + d,
                     timeout_s, task_id))
  /\ lastKind' = ResponseKind(r)
  /\ answered' = (answered \/ Valid(r))
  /\ UNCHANGED << inputs, prompt, task_id, nSubmit, submitResp, cancelled >>
  /\ UNCHANGED appVars

\* Lines 182, 104, 188-198: asyncio.sleep(2.0) returns, then the while test.
SleepReturn ==
  /\ pc = "sleep"
  /\ budget' = Max(-1, budget - SleepSeconds)
  /\ Goto(WhileAfterSleep(query_url, elapsed + SleepSeconds, timeout_s))
  /\ UNCHANGED << inputs, prompt, task_id, nSubmit, submitResp, firstFailMsg,
                  badSuccess, clean, successResp, lastKind, answered, cancelled >>
  /\ UNCHANGED appVars

\* The task is cancelled while the coroutine is suspended at an await (the
\* submission POST, a status request or the sleep).
Cancel ==
  /\ pc \in {"await_submit", "await_query", "sleep"}
  /\ cancelled' = TRUE
  /\ Goto(OnCancel(pc, on_progress, query_url, query_payload, elapsed,
                   query_success, timeout_s, task_id))
  /\ UNCHANGED << inputs, prompt, task_id, nSubmit, submitResp, budget,
                  firstFailMsg, badSuccess, clean, successResp, lastKind,
                  answered >>
  /\ UNCHANGED appVars

Next ==
  \/ Call
  \/ \E r \in SubmitResponses : SubmitReturn(r)
  \/ \E r \in StatusResponses, d \in 0..MaxReqDur : QueryReturn(r, d)
  \/ SleepReturn
  \/ Cancel

Spec == Init /\ [][Next]_vars

\* Every request that was sent completes and every sleep ends.
FairSpec ==
  /\ Spec
  /\ WF_vars(Call)
  /\ WF_vars(\E r \in SubmitResponses : SubmitReturn(r))
  /\ WF_vars(\E r \in StatusResponses, d \in 0..MaxReqDur : QueryReturn(r, d))
  /\ WF_vars(SleepReturn)

\* build_prompt over its arguments: the call up to the submission POST
Categories == {None, "top", "dress", "outerwear", "bottom"}
RECURSIVE ExtraTexts(_)
ExtraTexts(n) ==
  IF n = 0 THEN {<< >>}
  ELSE ExtraTexts(n - 1) \cup
       {Append(t, c) : t \in {u \in ExtraTexts(n - 1) : Len(u) = n - 1},
                       c \in {"a", "\n"}}
InitPrompt ==
  /\ InitWith(Categories, {NoExtra} \cup {Extra(t) : t \in ExtraTexts(MaxExtraLen)})
  /\ NoApp
PromptSpec == InitPrompt /\ [][Call]_vars

(* --------------------- backend/app.py: the process --------------------- *)
\* what "await try_on_with_fal_nanobanana(...)" hands to api_tryon once the
\* credential check has passed
ProviderOutcomes ==
  {Return(u, Description, "task") : u \in Urls}
    \cup {FalError(<<"Task polling timed out">>), Cancelled}

NotProperlyConfigured == HTTPException(500, "Service not properly configured")
UpstreamUnconfigured ==
  HTTPException(502, "Upstream failure: KIE_API_KEY not configured")

\* the process starts: the import of the provider module and Settings() read
\* the same environment, _startup creates the cleaner task
InitApp ==
  /\ InitWith({None}, {NoExtra})
  /\ timeout_s = 1
  /\ on_progress = "ok"
  /\ \E kie \in EnvValues, fal \in EnvValues, ttl \in 1..MaxTtl :
        /\ KIE_API_KEY = LoadApiKey(kie, fal)
        /\ settings = LoadSettings(kie, fal, ttl)
  /\ utcnow = 0
  /\ uploaded_index = EmptyIndex
  /\ generated_index = EmptyIndex
  /\ tmp_files = {}
  /\ handler = [h \in Requests |-> IdleHandler]
  /\ cleaner_wake = 0

\* Lines 256-272: a request arrives with upload f; the configuration gate,
\* the checks of the file name, then "await person.read()".
Request(h, f) ==
  /\ handler[h].pc = "idle"
  /\ handler' = [handler EXCEPT ![h] =
       IF GateRejects(settings) THEN Respond(NotProperlyConfigured)
       ELSE IF f = "no_filename"
         THEN Respond(HTTPException(400, "Missing 'person' file"))
       ELSE IF f = "nsfw_name"
         THEN Respond(HTTPException(422, "Content rejected by policy"))
       ELSE At("read")]
  /\ UNCHANGED << settings, utcnow, uploaded_index, generated_index,
                  tmp_files, cleaner_wake >>
  /\ UNCHANGED callVars

\* Lines 272-330: the upload was read as c; the size and image checks, the
\* temp file name is written and registered, then the provider is called and
\* runs up to its first await (its credential check, lines 52-53).
ReadReturn(h, c, name) ==
  /\ handler[h].pc = "read"
  /\ IF c = "too_large"
       THEN /\ handler' = [handler EXCEPT ![h] =
                              Respond(HTTPException(413, "File too large"))]
            /\ UNCHANGED << tmp_files, uploaded_index >>
     ELSE IF c = "bad_image"
       THEN /\ handler' = [handler EXCEPT ![h] =
                              Respond(HTTPException(400, "Unsupported image type"))]
            /\ UNCHANGED << tmp_files, uploaded_index >>
     ELSE IF c = "save_fails"
       THEN /\ handler' = [handler EXCEPT ![h] =
                              Respond(HTTPException(500, "Failed to process image"))]
            /\ UNCHANGED << tmp_files, uploaded_index >>
     ELSE /\ tmp_files' = tmp_files \cup {name}
          /\ uploaded_index' = Put(uploaded_index, name,
                                   utcnow + settings.DELETE_AFTER_MINUTES)
          /\ handler' = [handler EXCEPT ![h] =
               IF NotConfigured(KIE_API_KEY) THEN Respond(UpstreamUnconfigured)
               ELSE At("provider")]
  /\ UNCHANGED << settings, utcnow, generated_index, cleaner_wake >>
  /\ UNCHANGED callVars

\* Lines 324-346: the provider call ends with out: a FalError is answered
\* 502, a result URL is registered and answered, a cancellation propagates.
ProviderReturn(h, out) ==
  /\ handler[h].pc = "provider"
  /\ IF out.kind = "return"
       THEN /\ generated_index' = Put(generated_index, out.url,
                                      utcnow + settings.DELETE_AFTER_MINUTES)
            /\ handler' = [handler EXCEPT ![h] = Respond(TryOnResult(out.url))]
     ELSE IF out.kind = "FalError"
       THEN /\ handler' = [handler EXCEPT ![h] =
                              Respond(HTTPException(502, "Upstream failure"))]
            /\ UNCHANGED generated_index
     ELSE /\ handler' = [handler EXCEPT ![h] = At("cancelled")]
          /\ UNCHANGED generated_index
  /\ UNCHANGED << settings, utcnow, uploaded_index, tmp_files, cleaner_wake >>
  /\ UNCHANGED callVars

\* Lines 119-133: one pass of _ttl_cleaner up to its sleep; unlink raised for
\* the files of failed, which the pass ignores.
CleanerPass(failed) ==
  /\ utcnow >= cleaner_wake
  /\ LET now == utcnow
         to_delete == Expired(uploaded_index, now)
     IN /\ failed \subseteq to_delete \cap tmp_files
        /\ tmp_files' = tmp_files \ (to_delete \ failed)
        /\ uploaded_index' = Purge(uploaded_index, now)
        /\ generated_index' = Purge(generated_index, now)
        /\ cleaner_wake' = now + CleanerSleepMinutes
  /\ UNCHANGED << settings, utcnow, handler >>
  /\ UNCHANGED callVars

\* a minute passes
Tick ==
  /\ utcnow < MaxNow
  /\ utcnow' = utcnow + 1
  /\ UNCHANGED << settings, uploaded_index, generated_index, tmp_files,
                  handler, cleaner_wake >>
  /\ UNCHANGED callVars

NextApp ==
  \/ \E h \in Requests, f \in {"ok", "no_filename", "nsfw_name"} : Request(h, f)
  \/ \E h \in Requests, c \in {"ok", "too_large", "bad_image", "save_fails"},
        name \in Names : ReadReturn(h, c, name)
  \/ \E h \in Requests, out \in ProviderOutcomes : ProviderReturn(h, out)
  \/ \E failed \in SUBSET Names : CleanerPass(failed)
  \/ Tick

AppSpec == InitApp /\ [][NextApp]_vars

(* ============================== claims ================================= *)
Done == pc = "done"
Msg(part) == outcome.kind = "FalError" /\ part \in Range(outcome.msg)
TimedOut == Msg("Task polling timed out")
AllQueryEndpointsFailed == Msg("All query endpoints failed")

\* C1: a call in which a status query returned a valid response with state
\* "fail" and failMsg m ends with an error that carries m; it does not end
\* with a success, a timeout or "All query endpoints failed".
C1_FailIsRejected ==
  (Done /\ firstFailMsg # "-") =>
     /\ outcome.kind = "FalError"
     /\ Msg(firstFailMsg)
     /\ ~TimedOut
     /\ ~AllQueryEndpointsFailed

\* C2: once a status query has returned a valid "fail" response the call is
\* over: no status request is in flight and none will be sent (the coroutine
\* is neither awaiting a request nor sleeping before the next tick).
C2_FailStopsPolling ==
  firstFailMsg # "-" => Done

\* C3: a status request is never issued once more than timeout_s seconds
\* have passed since polling of the job began (budget is what was left at the
\* instant the request in flight was sent, -1 when the deadline was overrun).
C3_NoRequestAfterDeadline ==
  pc = "await_query" => budget >= 0

\* C4: when the submission returned a task id and every status query
\* answered with a valid non-terminal state, the call ends with "Task polling
\* timed out", having used the first query URL only.
C4_RunningEndsInTimeout ==
  (Done /\ task_id # "" /\ queried /\ clean /\ successResp = NoStatusResp) =>
     /\ TimedOut
     /\ ~AllQueryEndpointsFailed
     /\ query_url = 1

\* C5: a submission response that carries a nonempty result-URL list makes
\* the call return that URL with no status request ever sent.
C5_ImmediateResult ==
  (submitResp.k = "response" /\ submitResp.resultUrls # << >>) =>
     /\ Done
     /\ outcome.kind = "return"
     /\ outcome.url = submitResp.resultUrls[1]
     /\ ~queried

\* C6: after a submission that returned only the task id t, status answers
\* that were all non-terminal and then a "success" with a nonempty resultUrls
\* end the call at once with (first URL of that response, description, t).
C6_PollingSuccess ==
  (successResp # NoStatusResp /\ clean /\ submitResp.resultUrls = << >>) =>
     /\ Done
     /\ task_id = submitResp.taskId
     /\ outcome = Return(successResp.resultUrls[1], Description, submitResp.taskId)

C6_Witness ==
  /\ Done
  /\ successResp = Success("object", <<"r2", "r1">>)
  /\ clean
  /\ submitResp.resultUrls = << >>
  /\ elapsed >= SleepSeconds
  /\ outcome.url = "r2"
  /\ outcome.request_id = "t1"

\* C7: a valid "success" response from which no result URL can be taken ends
\* the call with an error that reports the missing result.
C7_SuccessWithoutUrlIsSurfaced ==
  badSuccess =>
     /\ Done
     /\ \/ Msg("No result JSON in successful response")
        \/ Msg("No result URLs in successful response")

\* C8: a call produces exactly one terminal result, a triple or a FalError,
\* and a triple never has an empty URL.
C8_OneTypedResult ==
  /\ nResults <= 1
  /\ Done <=> nResults = 1
  /\ Done <=> outcome.kind \in {"return", "FalError"}
  /\ outcome.kind = "return" => outcome.url # ""

\* C9: without an API credential the call fails with "KIE_API_KEY not
\* configured" and sends neither the submission nor any status request.
C9_UnconfiguredBeforeNetwork ==
  KIE_API_KEY = "" =>
     /\ nSubmit = 0
     /\ ~queried
     /\ client = "none"
     /\ pc \in {"start", "done"}
     /\ Done => outcome = FalError(<<"KIE_API_KEY not configured">>)

C9_Witness ==
  Done /\ KIE_API_KEY = "" /\ outcome.kind = "FalError" /\ nSubmit = 0

\* C10: when the submission endpoint yields a connection error the call ends
\* with the "Failed to connect" error, the submission was sent once to each
\* endpoint of the catalog and no status request was sent.
C10_ConnectError ==
  submitResp.k = "ConnectError" =>
     /\ Done
     /\ outcome.kind = "FalError"
     /\ outcome.msg[1] = "Failed to connect to Kie.ai API: "
     /\ nSubmit = NumSubmitUrls
     /\ ~queried

C10_Witness ==
  Done /\ submitResp.k = "ConnectError" /\ nSubmit = 1 /\ Msg("ConnectError")

\* C11: a submission response with HTTP status >= 400 ends the call with the
\* "Kie.ai API failed" error that carries the status and the body; the
\* submission was sent once and no status request is sent.
C11_SubmitHttpError ==
  (submitResp.k = "response" /\ submitResp.status >= 400) =>
     /\ Done
     /\ Msg("Kie.ai API failed: ")
     /\ Msg(ToString(submitResp.status))
     /\ Msg("body")
     /\ nSubmit = 1
     /\ ~queried

C11_Witness ==
  Done /\ submitResp.k = "response" /\ submitResp.status = 500 /\ Msg("500")

\* C12: a status request to query URL u that answers 404 is the last request
\* addressed to u: the next request, if any, goes to the entry after u (with
\* the first payload shape), and the loop never returns to an earlier entry.
C12_NotFoundDisqualifiesUrl ==
  [][ /\ query_url' >= query_url
      /\ (pc = "await_query" /\ lastKind' = "404" /\ pc' = "await_query") =>
            (query_url' = query_url + 1 /\ query_payload' = 1) ]_vars

C12_Witness ==
  pc = "await_query" /\ lastKind = "404" /\ query_url = 3 /\ query_payload = 1

\* C13: once a query endpoint has given a valid status response, every
\* later status request of the call goes to that same endpoint.
C13_NoEndpointSwitch ==
  [][ (answered /\ pc' = "await_query") => query_url' = query_url ]_vars

\* C14: on_progress is observational: what the call does with a status
\* response (the next request it sends, or its outcome) is the same whether
\* the callback is absent, returns or raises.
C14_ProgressObservational ==
  pc = "await_query" =>
    \A r \in StatusResponses, cb \in {"none", "ok", "raises"} :
       AfterQuery(r, cb, query_url, query_payload, elapsed, timeout_s, task_id)
         = AfterQuery(r, on_progress, query_url, query_payload, elapsed,
                      timeout_s, task_id)

\* C15: a call cancelled at an await sends no further request, has closed
\* its HTTP client and lets the CancelledError out: it produces no FalError
\* and no result, and it does not go on polling.
C15_CancelPropagates ==
  cancelled =>
     /\ pc = "cancelled"
     /\ client = "closed"
     /\ outcome = Cancelled
     /\ nResults = 0

C15_Witness ==
  cancelled /\ pc = "cancelled" /\ queried /\ query_success /\ client = "closed"

\* C16: when the call ends with "All query endpoints failed", its error
\* carries the concrete error of the last failed request.
C16_LastErrorKept ==
  (Done /\ AllQueryEndpointsFailed) => Msg(ConcreteError(lastKind))

\* C17 as stated: with a style hint the prompt is the base prompt, a newline
\* and a last line that is the hint and nothing else; without one it is the
\* base prompt.
C17_HintAloneOnLastLine ==
  pc = "await_submit" =>
    prompt = IF prompt_extra.some
               THEN BasePrompt(category) \o <<"\n">> \o prompt_extra.text
               ELSE BasePrompt(category)

\* C17 amended: with a nonempty style hint the prompt is the base prompt, a
\* newline, the label "Extra style guidance: " and the hint verbatim; with
\* the hint absent or empty it is the base prompt.
C17_HintLabelled ==
  pc = "await_submit" =>
    LET b == BasePrompt(category)
        n == Len(b)
        t == prompt_extra.text
    IN IF prompt_extra.some /\ t # << >>
         THEN /\ Len(prompt) = n + 2 + Len(t)
              /\ SubSeq(prompt, 1, n) = b
              /\ prompt[n + 1] = "\n"
              /\ prompt[n + 2] = "Extra style guidance: "
              /\ SubSeq(prompt, n + 3, Len(prompt)) = t
         ELSE prompt = b

C17_Witness ==
  /\ pc = "await_submit"
  /\ category = "dress"
  /\ prompt[2] = "dress"
  /\ prompt_extra.some
  /\ Len(prompt_extra.text) >= 2
  /\ Len(prompt) > Len(BasePrompt(category))

\* C18: in a tick the payload shapes are tried in their order, at most
\* NumQueryPayloads of them, and a later shape is tried only when the shape
\* before it failed with an HTTP status >= 400 other than 404, a body code
\* other than 200 or an exception: a valid status ends the tick.
C18_ShapeFallback ==
  [][ pc' = "await_query" =>
        /\ query_payload' \in {1, query_payload + 1}
        /\ query_payload' <= NumQueryPayloads
        /\ query_payload' > 1 => lastKind' \in {"http", "code", "exception"} ]_vars

\* C19: a valid non-terminal status response is followed by one sleep of
\* SleepSeconds and then the next request (or the end of the call); the call
\* sleeps at no other point, in particular not after a terminal response.
C19_FixedSleep ==
  [][ /\ (pc = "await_query" /\ lastKind' = "nonterminal" /\ ~cancelled')
            => pc' = "sleep"
      /\ pc' = "sleep" =>
            /\ pc = "await_query"
            /\ lastKind' = "nonterminal"
            /\ firstFailMsg' = "-"
            /\ ~badSuccess'
      /\ (pc = "sleep" /\ ~cancelled') =>
            /\ pc' \in {"await_query", "done"}
            /\ elapsed' = elapsed + SleepSeconds ]_vars

\* C20: when every request completes and every sleep ends, the call reaches
\* a terminal outcome; it sends the submission at most once and moves through
\* KIE_QUERY_URLS in list order without going back.
C20_Terminates ==
  /\ <>(pc \in {"done", "cancelled"})
  /\ [](nSubmit <= 1)
  /\ [][query_url' \in {query_url, query_url + 1}]_vars

C20_Witness ==
  Done /\ AllQueryEndpointsFailed /\ nSubmit = 1 /\ query_url = NumQueryUrls + 1

\* a step is a pass of _ttl_cleaner: only a pass sets the end of its sleep
IsCleanerPass == cleaner_wake' # cleaner_wake
Removed(index, index2) == DOMAIN index \ DOMAIN index2
Ttl == settings.DELETE_AFTER_MINUTES

\* C21: under any interleaving of api_tryon handlers and passes of
\* _ttl_cleaner, an entry of uploaded_index or generated_index, and a temp
\* file, disappears only in a cleaner pass and only if its expiry instant is
\* earlier than the instant of the pass; after a pass no entry with an
\* expiry earlier than that instant is left; a handler that saved its
\* upload, or got a result URL, leaves the entry with expiry now +
\* DELETE_AFTER_MINUTES in the index, whatever the other handlers and the
\* cleaner do around it.
C21_CleanerExact ==
  [][/\ \A k \in Removed(uploaded_index, uploaded_index') :
          IsCleanerPass /\ uploaded_index[k] < utcnow
     /\ \A k \in Removed(generated_index, generated_index') :
          IsCleanerPass /\ generated_index[k] < utcnow
     /\ \A k \in tmp_files \ tmp_files' :
          /\ IsCleanerPass
          /\ k \in DOMAIN uploaded_index
          /\ uploaded_index[k] < utcnow
     /\ IsCleanerPass =>
          /\ Expired(uploaded_index', utcnow) = {}
          /\ Expired(generated_index', utcnow) = {}
     /\ \A h \in Requests :
          /\ (handler[h].pc = "read" /\ handler'[h].pc = "provider") =>
               \E n \in Names : /\ n \in tmp_files'
                                /\ n \in DOMAIN uploaded_index'
                                /\ uploaded_index'[n] = utcnow + Ttl
          /\ (handler[h].pc = "provider" /\ handler'[h].response.status = 200) =>
               LET u == handler'[h].response.detail IN
                 /\ u \in DOMAIN generated_index'
                 /\ generated_index'[u] = utcnow + Ttl
    ]_vars

\* a pass has removed the expired entry of a result URL that a request was
\* answered with, and left the unexpired entry of another request's upload
C21_Witness ==
  \E h \in Requests, n \in Names :
    /\ handler[h].response.status = 200
    /\ handler[h].response.detail \notin DOMAIN generated_index
    /\ n \in DOMAIN uploaded_index
    /\ n \in tmp_files
    /\ uploaded_index[n] >= utcnow
    /\ cleaner_wake = utcnow + CleanerSleepMinutes
    /\ \E g \in Requests : handler[g].pc = "provider"
\* C22: for every combination of KIE_API_KEY and FAL_KEY set or unset in the
\* environment, the gate of api_tryon and the credential check of the
\* provider agree: a request is answered "Service not properly configured"
\* exactly when the provider has no usable credential, and no request is
\* forwarded to a provider that then fails as unconfigured.
C22_GateAgreesWithProvider ==
  \A h \in Requests :
    /\ handler[h].pc # "idle" =>
         (handler[h].response = NotProperlyConfigured
            <=> NotConfigured(KIE_API_KEY))
    /\ handler[h].response # UpstreamUnconfigured

====
